---- MODULE Spec2Model ----
(***************************************************************************)
(* A model of the optimized auction flipper: the parallel ingestion cycle  *)
(* (Handlers/AuctionHandlerOptimized.py), the batch and single-item        *)
(* evaluation client with its cache (Handlers/ItemValueHandlerOptimized.py)*)
(* and the store operations (Handlers/DataBaseHandler.py).                 *)
(*                                                                         *)
(* A step of the model is the code that runs between two awaits of an      *)
(* asyncio task: the pymongo calls are synchronous, so a page task's       *)
(* existence check and insert run in one step; the page fetch and the      *)
(* evaluation request are the suspension points.                           *)
(***************************************************************************)
EXTENDS Integers, Sequences, FiniteSets, Bags, TLC

\* ------------------------------------------------------------------ bounds

\* Pages of the remote catalog (total_pages of a cycle).
NumPages == 2
\* Entries on one page.
MaxPageLen == 2
\* Ingestion cycles in one behaviour.
MaxCycles == 2
\* Failures (network, store, service) the environment injects in one behaviour.
MaxFaults == 1
\* Catalogs of at most this many entries are followed through MaxCycles cycles,
\* the larger ones through one cycle.
MaxEntriesRepeated == 2
\* Largest value of the configuration option max_concurrent_pages.
MaxConcurrentPages == 2
\* Calls of get_item_networth_async in one behaviour of the evaluation client.
MaxEvals == 3
\* Calls of process_auctions_batch in one behaviour of the evaluation client.
MaxBatches == 1
\* Auctions handed to one such call.
MaxBatchLen == 1
\* Last value of the clock (time.time(), in seconds).
MaxTime == 2
\* Largest value of the configuration option cache_ttl_seconds.
MaxTtl == 2
\* Monitoring cycles in one behaviour of the scheduler.
MaxMonitoringCycles == 6
\* Calls of update_cached_prices_async when the prices are looked at on their own.
MaxRefreshes == 3

\* ------------------------------------------------------- program constants

\* monitoring_cycle passes max_concurrent=8 whatever the configuration says.
MonitoringMaxConcurrent == 8

\* evaluate_item_async calls cleanup_cache when the cache holds more entries.
CacheCleanupThreshold == 1000
PriceRefreshInterval == 5
\* The page count initial_launch reads from a metadata body without 'totalPages',
\* and the one it falls back to when the metadata request raises.
LaunchDefaultPages == 0
LaunchFallbackPages == 50
\* The same two values in monitoring_cycle.
MonitoringDefaultPages == 2
MonitoringFallbackPages == 2

\* ------------------------------------------------------- the remote catalog

\* The auctions the remote catalog may list, by uuid.
UUIDs == {"a1", "a2", "a3", "a4", "a5", "a6"}

\* The raw entry of the catalog for a uuid: the fields the code reads.
\*   a1  fixed-price, price 100, payload valued 150
\*   a2  not fixed-price
\*   a3  fixed-price, price 160, payload with an NBT array: decodes, but
\*       json.dumps rejects the decoded item
\*   a4  fixed-price, price 200, same payload as a1
\*   a5  fixed-price, payload that does not decode
\*   a6  fixed-price, like a1, but the entry has no key 'tier'
\* missing: the keys of the entry the feed left out.
Entry(u) ==
    CASE u = "a1" -> [uuid |-> u, bin |-> TRUE,  claimed |-> FALSE, starting_bid |-> 100, item_bytes |-> "p1", missing |-> {}]
      [] u = "a2" -> [uuid |-> u, bin |-> FALSE, claimed |-> FALSE, starting_bid |-> 100, item_bytes |-> "p2", missing |-> {}]
      [] u = "a3" -> [uuid |-> u, bin |-> TRUE,  claimed |-> FALSE, starting_bid |-> 160, item_bytes |-> "p3", missing |-> {}]
      [] u = "a4" -> [uuid |-> u, bin |-> TRUE,  claimed |-> FALSE, starting_bid |-> 200, item_bytes |-> "p1", missing |-> {}]
      [] u = "a5" -> [uuid |-> u, bin |-> TRUE,  claimed |-> FALSE, starting_bid |-> 50,  item_bytes |-> "bad", missing |-> {}]
      [] OTHER    -> [uuid |-> u, bin |-> TRUE,  claimed |-> FALSE, starting_bid |-> 100, item_bytes |-> "p1", missing |-> {"tier"}]

\* The auctions whose entry has every key.
WellFormed == { u \in UUIDs : Entry(u).missing = {} }

Pages == 0 .. (NumPages - 1)

\* Sequences of pairwise distinct well-formed auctions of length at most n: one page.
DistinctSeqs(n) ==
    { s \in UNION { [1..k -> WellFormed] : k \in 0..n } :
        \A i, j \in DOMAIN s : i # j => s[i] # s[j] }

\* The same, with the malformed entries: a page as the feed may send it.
RawSeqs(n) ==
    { s \in UNION { [1..k -> UUIDs] : k \in 0..n } :
        \A i, j \in DOMAIN s : i # j => s[i] # s[j] }

\* ---------------------------------------------------------------- helpers

Range(s) == { s[i] : i \in DOMAIN s }

RECURSIVE SelectSeqBy(_, _)
\* The list comprehension [x for x in s if x in keep], order kept.
SelectSeqBy(s, keep) ==
    IF s = <<>> THEN <<>>
    ELSE (IF Head(s) \in keep THEN <<Head(s)>> ELSE <<>>) \o SelectSeqBy(Tail(s), keep)

RECURSIVE SumSeq(_)
SumSeq(s) == IF s = <<>> THEN 0 ELSE Head(s) + SumSeq(Tail(s))

RECURSIVE SeqToBag(_)
SeqToBag(s) == IF s = <<>> THEN EmptyBag ELSE SetToBag({Head(s)}) (+) SeqToBag(Tail(s))

RECURSIVE SetToSeq(_)
\* The elements of a finite set, listed once each.
SetToSeq(S) ==
    IF S = {} THEN <<>>
    ELSE LET x == CHOOSE y \in S : TRUE IN <<x>> \o SetToSeq(S \ {x})

\* ------------------------------------------------------------------- state

VARIABLES
    catalog,              \* remote catalog: page number -> the uuids it lists, in order
    max_concurrent_pages, \* configuration option performance.max_concurrent_pages
    auctions,             \* DataBaseHandler.auctions: a bag of the stored documents
    flips,                \* DataBaseHandler.flips: a bag of flip documents (no unique index)
    evaluation_stats,     \* ItemValueHandlerOptimized.evaluation_stats
    phase,                \* "idle" | "running": is check_auctions_parallel in progress
    cycle,                \* number of ingestion cycles started
    max_concurrent,       \* max_concurrent argument of the cycle in progress
    sem_value,            \* value of the cycle's asyncio.Semaphore
    tasks,                \* page number -> the page task: its position and locals
    total_stats,          \* value returned by the last check_auctions_parallel
    deleted_count,        \* value returned by the last delete_ended_auctions_optimized
    faults,               \* history: <<page, kind>> of the failures injected in this cycle
    prev_faults,          \* history: faults of the cycle before
    reconciled,           \* history: a reconciliation ran since the last cycle ended
    reconciled_between,   \* history: one ran between the cycle before and this one
    store_at_start,       \* history: auctions when the cycle in progress started
    fault_count,          \* failures injected so far
    feed,                 \* history: the ended feed the last reconciliation read
    store_before,         \* history: auctions when that reconciliation started
    deleted_ever,         \* history: the uuids the reconciler has deleted so far
    evaluation_cache,     \* ItemValueHandlerOptimized._evaluation_cache: key -> <<>> or <<entry>>
    cache_ttl,            \* configuration option performance.cache_ttl_seconds
    clock,                \* time.time()
    pending,              \* bag of the evaluate_item_async calls waiting for the service's reply
    batch,                \* the process_auctions_batch call made directly on the client
    evals_started,        \* calls of get_item_networth_async so far
    batches_started,      \* direct calls of process_auctions_batch so far
    lookup,               \* history: the last cache lookup of evaluate_item_async
    reply,                \* history: the last reply evaluate_item_async handled
    pc,                   \* where OptimizedAuctionFlipper.run is
    running,              \* self.running
    cycles_completed,     \* self.stats['cycles_completed']
    sessions_closed,      \* cleanup has closed the HTTP sessions
    cached_files,         \* the files cached/*.json: table -> version, NoData when absent
    price_tables,         \* PriceHandler.prices, lowestbin, dailysales: table -> version
    price_update,         \* value returned by the last update_cached_prices_async
    price_fetches,        \* calls of update_cached_prices_async so far
    refresh_log,          \* history: cycles_completed at each refresh of monitoring_cycle
    tables_refreshed,     \* history: price_tables as the last refresh left them
    tables_before,        \* history: price_tables before the last refresh
    reevaluations,        \* history: calls of reevaluate_all_existing_auctions so far
    reevaluated,          \* history: the uuids the last such call evaluated
    signal_seen,          \* history: <<>> or <<n>>, n monitoring cycles begun at the signal
    sched_faults,         \* history: failed calls of the scheduler itself in this cycle
    total_pages           \* total_pages of initial_launch, current_total_pages of monitoring_cycle

\* What the reconciler has read and done.
reconciler_history == << feed, store_before, deleted_ever >>

\* The state of the evaluation client besides evaluation_stats and flips.
client_vars == << evaluation_cache, cache_ttl, clock, pending, batch,
                  evals_started, batches_started, lookup, reply >>

\* The scheduler: run, initial_launch, monitoring_cycle, the price tables.
sched_vars == << pc, running, cycles_completed, sessions_closed, cached_files, price_tables,
                 price_update, price_fetches, refresh_log, tables_refreshed, tables_before,
                 reevaluations, reevaluated, signal_seen, sched_faults, total_pages >>

vars == << catalog, max_concurrent_pages, auctions, flips, evaluation_stats, phase,
           cycle, max_concurrent, sem_value, tasks, total_stats, deleted_count,
           faults, prev_faults, reconciled, reconciled_between, store_at_start,
           fault_count, evaluation_cache, cache_ttl, clock, pending, batch,
           evals_started, batches_started, lookup, reply, feed, store_before,
           deleted_ever, pc, running, cycles_completed, sessions_closed, cached_files,
           price_tables, price_update, price_fetches, refresh_log, tables_refreshed, tables_before,
           reevaluations, reevaluated, signal_seen, sched_faults, total_pages >>

\* ------------------------------------------------------- DataBaseHandler.py

StoredUuids(coll) == { d.uuid : d \in BagToSet(coll) }

\* Number of documents of the collection whose uuid is u.
StoredCount(coll, u) ==
    LET of_u == { d \in BagToSet(coll) : d.uuid = u }
    IN  IF of_u = {} THEN 0 ELSE BagCardinality([ d \in of_u |-> coll[d] ])

\* Mutant of bulk_check_existing_auctions: the query finds nothing.
bulk_check_finds_nothing(coll, uuids) == {}

\* bulk_check_existing_auctions: the uuids of the list that are stored.
bulk_check_existing_auctions(coll, uuids) ==
    IF uuids = {} THEN {} ELSE { u \in uuids : u \in StoredUuids(coll) }

\* Mutant of insert_many: the collection has no unique index on uuid.
insert_many_unindexed(coll, docs) == coll (+) SeqToBag(docs)

RECURSIVE insert_many(_, _)
\* auctions.insert_many(docs), ordered, under the unique index on uuid: documents
\* are inserted in order up to the first duplicate key, where the call raises.
insert_many(coll, docs) ==
    IF docs = <<>> THEN coll
    ELSE IF Head(docs).uuid \in StoredUuids(coll) THEN coll
    ELSE insert_many(coll (+) SetToBag({Head(docs)}), Tail(docs))

\* Mutant of bulk_delete_auctions: the filter of delete_many matches every document.
bulk_delete_everything(coll, uuids) ==
    [ store |-> EmptyBag, deleted_count |-> BagCardinality(coll) ]

\* bulk_delete_auctions: delete_many on the uuids; the store left and the count.
bulk_delete_auctions(coll, uuids) ==
    LET kept == { d \in BagToSet(coll) : d.uuid \notin uuids }
    IN  [ store |-> [ d \in kept |-> coll[d] ],
          deleted_count |-> SumSeq([ i \in 1..Len(SetToSeq(uuids)) |->
                                       StoredCount(coll, SetToSeq(uuids)[i]) ]) ]

\* ------------------------------------------- ItemValueHandlerOptimized.py

\* decode_data_optimized: the list 'i' of the decoded NBT data; empty when the
\* payload does not decode (the function returns None).
decode_data_optimized(item_bytes) ==
    IF item_bytes = "bad" THEN <<>> ELSE <<[payload |-> item_bytes]>>

\* json.dumps(item) succeeds: the decoded item holds no NBT array.
JsonSerializable(item) == item.item.payload # "p3"

\* The filter of process_auctions_batch and of process_page_optimized.
IsOpenBin(u) == Entry(u).bin /\ ~Entry(u).claimed

\* valid_auctions of process_auctions_batch: fixed-price, unclaimed, decodable.
valid_auctions(aucs) ==
    SelectSeqBy(aucs, { u \in UUIDs : IsOpenBin(u)
                          /\ decode_data_optimized(Entry(u).item_bytes) # <<>> })

\* items_data[i] of process_auctions_batch, built from valid_auctions[i].
ItemData(u) ==
    [ item |-> decode_data_optimized(Entry(u).item_bytes)[1],
      itemstats |-> [uuid |-> u, starting_bid |-> Entry(u).starting_bid,
                     item_bytes |-> Entry(u).item_bytes] ]

items_data(aucs) == [ i \in 1..Len(valid_auctions(aucs)) |-> ItemData(valid_auctions(aucs)[i]) ]

RECURSIVE serializable_items(_)
\* evaluate_items_batch: the items that pass the json.dumps test, the others skipped.
serializable_items(items) ==
    IF items = <<>> THEN <<>>
    ELSE (IF JsonSerializable(Head(items)) THEN <<Head(items)>> ELSE <<>>)
         \o serializable_items(Tail(items))

\* The value the service estimates for a payload.
EstimatedValue(item_bytes) ==
    CASE item_bytes = "p1" -> 150
      [] item_bytes = "p3" -> 300
      [] OTHER -> 90

\* One result of the valuation service for one submitted item. The field "of" is
\* not part of the reply: it records which auction's item the result was computed
\* for.
ServiceResult(item) ==
    LET v == EstimatedValue(item.item.payload)
        p == item.itemstats.starting_bid
    IN  [ success |-> TRUE, isProfitable |-> v > p, profit |-> v - p,
          percentage |-> (100 * (v - p)) \div p,
          estimatedValue |-> v, of |-> item.itemstats.uuid ]

\* The reply of POST /evaluate with status 200 whose success flag is false: it
\* carries no verdict, and result.get('isProfitable', False) reads it as FALSE.
FailedResult(item) ==
    [ success |-> FALSE, isProfitable |-> FALSE, profit |-> 0, percentage |-> 0,
      estimatedValue |-> 0, of |-> item.itemstats.uuid ]

\* The reply of POST /evaluate-batch: results order-aligned to the items sent.
ServiceBatchResults(items) == [ i \in 1..Len(items) |-> ServiceResult(items[i]) ]

\* flip_data of process_auctions_batch for result i.
FlipData(items, result, i) ==
    [ itemstats |-> items[i].itemstats, profit |-> result.profit,
      percentage |-> result.percentage, targeted_price |-> result.estimatedValue,
      of |-> result.of ]

\* flips_to_insert of process_auctions_batch.
flips_to_insert(aucs, results) ==
    LET idx == SelectSeqBy([ i \in 1..Len(results) |-> i ],
                   { i \in 1..Len(results) :
                        results[i].isProfitable /\ i <= Len(valid_auctions(aucs)) })
    IN  [ k \in 1..Len(idx) |-> FlipData(items_data(aucs), results[idx[k]], idx[k]) ]

\* ------------------------------------------------ AuctionHandlerOptimized.py

\* auction_data of process_page_optimized: the document stored for an entry.
AuctionData(u) ==
    [ uuid |-> u, price |-> Entry(u).starting_bid, bin |-> Entry(u).bin,
      item_bytes |-> Entry(u).item_bytes ]

\* The keys process_page_optimized reads with auction[...] when it builds
\* auction_data: a missing one raises KeyError.
RequiredKeys == {"item_name", "tier", "starting_bid", "bin", "item_bytes", "uuid", "start", "end"}

\* The loop over new_auctions raises KeyError: a fixed-price unclaimed new entry
\* misses a required key.
raises_key_error(new) ==
    \E i \in 1..Len(new) : IsOpenBin(new[i]) /\ Entry(new[i]).missing \cap RequiredKeys # {}

\* Mutant of new_auctions: the entries already stored are not filtered out.
new_auctions_unfiltered(aucs, existing_uuids) == aucs

\* new_auctions of process_page_optimized.
new_auctions(aucs, existing_uuids) == SelectSeqBy(aucs, UUIDs \ existing_uuids)

\* bin_auctions of process_page_optimized (auction_inserts holds their documents).
bin_auctions(new) == SelectSeqBy(new, { u \in UUIDs : IsOpenBin(u) })

\* Mutant of auction_inserts: only the entries that can be evaluated are persisted.
auction_inserts_evaluable(new) ==
    [ i \in 1..Len(valid_auctions(new)) |-> AuctionData(valid_auctions(new)[i]) ]

auction_inserts(new) == [ i \in 1..Len(bin_auctions(new)) |-> AuctionData(bin_auctions(new)[i]) ]

\* Number of entries of a catalog.
CatalogSize(cat) == SumSeq([ i \in 1..NumPages |-> Len(cat[i - 1]) ])

\* A page task before it runs.
PendingTask ==
    [ st |-> "pending", bin_auctions |-> <<>>, evaluation_results |-> <<>>,
      result |-> [kind |-> "none"], existence_queries |-> 0, batch_requests |-> 0 ]

\* A page for which check_auctions_parallel creates no task: range(total_pages)
\* does not reach it.
NoTask == [PendingTask EXCEPT !.st = "absent"]

\* The dictionary process_page_optimized returns (a missing key reads as 0).
PageResult(p, total, existing, new, bin, profitable) ==
    [ kind |-> "dict", page |-> p, total_auctions |-> total, existing_auctions |-> existing,
      new_auctions |-> new, bin_auctions |-> bin, profitable_flips |-> profitable ]

\* The exception asyncio.gather(return_exceptions=True) returns for a task that raised.
PageException(p) == [ kind |-> "exception", page |-> p ]

EmptyStats ==
    [ total_pages_processed |-> 0, total_auctions |-> 0, existing_auctions |-> 0,
      new_auctions |-> 0, bin_auctions |-> 0, profitable_flips |-> 0 ]

\* Mutant of page_results: gather without return_exceptions, so that one task's
\* exception is raised to check_auctions_parallel, which then sets page_results = [].
page_results_raising(ts) ==
    IF \E p \in Pages : ts[p].result.kind = "exception" THEN <<>>
    ELSE [ i \in 1..NumPages |-> ts[i - 1].result ]

\* page_results of check_auctions_parallel: what gather returns, in page order.
page_results(ts) == [ i \in 1..NumPages |-> ts[i - 1].result ]

\* The loop of check_auctions_parallel over page_results.
TotalStats(results) ==
    LET ok == SelectSeq(results, LAMBDA r : r.kind = "dict")
        Sum(f(_)) == SumSeq([ i \in 1..Len(ok) |-> f(ok[i]) ])
        ta(r) == r.total_auctions
        ea(r) == r.existing_auctions
        na(r) == r.new_auctions
        ba(r) == r.bin_auctions
        pf(r) == r.profitable_flips
    IN  [ total_pages_processed |-> Len(ok), total_auctions |-> Sum(ta),
          existing_auctions |-> Sum(ea), new_auctions |-> Sum(na),
          bin_auctions |-> Sum(ba), profitable_flips |-> Sum(pf) ]

\* ------------------------------------------------------------------- Init

\* get_cache_key: the md5 digest of the payload text.
get_cache_key(item_bytes) == <<"md5", item_bytes>>

CacheKeys == { get_cache_key(Entry(u).item_bytes) : u \in UUIDs }

\* The history variables before the first lookup and the first reply.
NoLookup ==
    [ made |-> FALSE, uuid |-> "a1", key |-> get_cache_key("p1"), at |-> 0, entry |-> <<>>,
      answered |-> <<>>, posted |-> FALSE ]

NoReply == [ made |-> FALSE, key |-> get_cache_key("p1"), stamp |-> 0, ok |-> FALSE, result |-> <<>> ]

\* No direct batch call in progress.
IdleBatch ==
    [ st |-> "idle", auctions |-> <<>>, live_keys |-> {}, hits_at_call |-> 0,
      evaluation_results |-> <<>>, profitable_count |-> 0 ]

\* The module state of ItemValueHandlerOptimized and of the stores at start.
ModuleInit ==
    /\ auctions = EmptyBag
    /\ flips = EmptyBag
    /\ evaluation_stats = [total_evaluations |-> 0, cache_hits |-> 0, profitable_found |-> 0]
    /\ evaluation_cache = [k \in CacheKeys |-> <<>>]
    /\ clock = 0
    /\ pending = EmptyBag
    /\ batch = IdleBatch
    /\ evals_started = 0
    /\ batches_started = 0
    /\ lookup = NoLookup
    /\ reply = NoReply

\* No ended feed has been read.
NoFeed == [ read |-> FALSE, ok |-> FALSE, ended |-> {} ]

\* No ingestion cycle has been started.
CycleInit ==
    /\ phase = "idle"
    /\ cycle = 0
    /\ max_concurrent = 0
    /\ sem_value = 0
    /\ tasks = [p \in Pages |-> PendingTask]
    /\ total_stats = EmptyStats
    /\ deleted_count = 0
    /\ faults = {}
    /\ prev_faults = {}
    /\ reconciled = FALSE
    /\ reconciled_between = FALSE
    /\ store_at_start = EmptyBag
    /\ fault_count = 0
    /\ feed = NoFeed
    /\ store_before = EmptyBag
    /\ deleted_ever = {}

\* ------------------------------------------------------------ PriceHandler.py

\* The version of a table that holds nothing: a file that does not exist, a
\* table of PriceHandler that is still {}. Version 0 is the data cached by an
\* earlier run, version n > 0 the data the n-th refresh of this run fetched.
NoData == -1

\* The tables, in the order readprices loads them.
PriceTables == << "prices", "lowestbin", "dailysales" >>

TableNames == Range(PriceTables)

\* The place of table t in that order.
TableIndex(t) == CHOOSE i \in 1..Len(PriceTables) : PriceTables[i] = t

\* fetch_and_save of update_cached_prices_async for every table: the file of a
\* table whose request succeeded (oks[t]) is overwritten with the data fetched,
\* the file of a table whose request failed is left as it is.
fetch_and_save(files, oks, version) ==
    [ t \in TableNames |-> IF oks[t] THEN version ELSE files[t] ]

\* PriceHandler.readprices: it opens the three files in order and assigns each
\* table as it goes; a missing file raises, and the tables not yet assigned keep
\* their value.
readprices(files, tables) ==
    [ t \in TableNames |->
        IF \A i \in 1..TableIndex(t) : files[PriceTables[i]] # NoData
        THEN files[t] ELSE tables[t] ]

\* update_cached_prices_async: the files and the tables it leaves, and the
\* dictionary it returns.
update_cached_prices_async(files, tables, oks, version) ==
    [ cached_files |-> fetch_and_save(files, oks, version),
      price_tables |-> readprices(fetch_and_save(files, oks, version), tables),
      result       |-> [ kind |-> "dict",
                         results |-> [ t \in TableNames |-> [success |-> oks[t]] ] ] ]

\* No price update has returned yet.
NoUpdate == [ kind |-> "none" ]

\* OptimizedAuctionFlipper.__init__ and the module state of PriceHandler, with
\* the price files of an earlier run in place.
SchedInit ==
    /\ pc = "start"
    /\ running = TRUE
    /\ cycles_completed = 0
    /\ sessions_closed = FALSE
    /\ price_tables = [t \in TableNames |-> NoData]
    /\ price_update = NoUpdate
    /\ price_fetches = 0
    /\ refresh_log = {}
    /\ tables_refreshed = [t \in TableNames |-> NoData]
    /\ tables_before = [t \in TableNames |-> NoData]
    /\ reevaluations = 0
    /\ reevaluated = {}
    /\ signal_seen = <<>>
    /\ sched_faults = {}
    /\ total_pages = 0

Init ==
    /\ catalog \in [Pages -> DistinctSeqs(MaxPageLen)]
    /\ max_concurrent_pages \in 1..MaxConcurrentPages
    /\ cache_ttl = MaxTtl
    /\ ModuleInit
    /\ CycleInit
    /\ SchedInit
    /\ cached_files = [t \in TableNames |-> 0]

\* A failure of kind k on page p is injected when ok is FALSE.
Fault(ok, p, k) == IF ok THEN {} ELSE {<<p, k>>}

\* ------------------------------------------------------- the ingestion cycle

\* The pages of the catalog for which the cycle in progress has a task.
CyclePages == { p \in Pages : tasks[p].st # "absent" }

\* check_auctions_parallel(pages, concurrency) up to the creation of the page
\* tasks, one for each page of range(pages); the catalog has the pages 0 to
\* NumPages - 1, and a task for a page past its end gets no auctions, stores
\* nothing and is not modelled. The first cycle
\* is the one of initial_launch, run with the configured max_concurrent_pages;
\* the later ones are those of monitoring_cycle, run with max_concurrent=8.
check_auctions_parallel_begin(pages, concurrency) ==
    /\ phase' = "running"
    /\ cycle' = cycle + 1
    /\ max_concurrent' = concurrency
    /\ sem_value' = max_concurrent'
    /\ tasks' = [p \in Pages |-> IF p < pages THEN PendingTask ELSE NoTask]
    /\ prev_faults' = faults
    /\ faults' = {}
    /\ reconciled_between' = reconciled
    /\ store_at_start' = auctions
    /\ feed' = NoFeed
    /\ store_before' = EmptyBag
    /\ UNCHANGED deleted_ever
    /\ UNCHANGED << catalog, max_concurrent_pages, auctions, flips, evaluation_stats,
                    total_stats, deleted_count, reconciled >>
    /\ UNCHANGED client_vars

\* check_auctions_parallel is called, by initial_launch or by monitoring_cycle, in
\* any order with the reconciler.
StartCycle ==
    /\ phase = "idle"
    /\ cycle < MaxCycles
    /\ cycle > 0 => CatalogSize(catalog) <= MaxEntriesRepeated
    /\ check_auctions_parallel_begin(NumPages, IF cycle = 0 THEN max_concurrent_pages
                                                           ELSE MonitoringMaxConcurrent)
    /\ UNCHANGED fault_count
    /\ UNCHANGED sched_vars

\* Mutant of CanAcquire: the tasks are not held back by the semaphore.
CanAcquireUnbounded(p) == \A q \in Pages : q < p => tasks[q].st # "pending"

\* The semaphore lets a task in: its value is positive. Waiters are woken in
\* the order they arrived, which is page order.
CanAcquire(p) ==
    /\ sem_value > 0
    /\ \A q \in Pages : q < p => tasks[q].st # "pending"

\* process_page_with_semaphore enters the semaphore and process_page_optimized
\* sends the page request.
Acquire(p) ==
    /\ phase = "running"
    /\ tasks[p].st = "pending"
    /\ CanAcquire(p)
    /\ sem_value' = sem_value - 1
    /\ tasks' = [tasks EXCEPT ![p].st = "fetching"]
    /\ UNCHANGED << catalog, max_concurrent_pages, auctions, flips, evaluation_stats,
                    phase, cycle, max_concurrent, total_stats, deleted_count, faults,
                    prev_faults, reconciled, reconciled_between, store_at_start,
                    fault_count >>
    /\ UNCHANGED client_vars
    /\ UNCHANGED reconciler_history
    /\ UNCHANGED sched_vars

\* The task ends: its result is what gather collects, and the semaphore is released.
\* The task keeps the locals bin_auctions and evaluation_results it ended with.
\* queries, requests: the existence queries and the batch requests it has sent.
Finish(p, bins, results, result, queries, requests) ==
    /\ tasks' = [tasks EXCEPT ![p] = [ st |-> "done", bin_auctions |-> bins,
                                       evaluation_results |-> results, result |-> result,
                                       existence_queries |-> queries,
                                       batch_requests |-> requests ]]
    /\ sem_value' = sem_value + 1

\* The store after another writer of the collection (a second instance, the
\* non-optimized handler) has inserted the records of the auctions `raced`; the
\* unique index holds for it too.
other_writer_inserts(coll, raced) ==
    insert_many(coll, [ i \in 1..Len(SetToSeq(raced)) |-> AuctionData(SetToSeq(raced)[i]) ])

\* What the page request can come back with: status 200 and a body, another
\* status, or an exception of the HTTP client (connection error, timeout).
Responses == {"200", "500", "error"}

\* Mutant of fetch_page_data: an exception of the HTTP client propagates.
fetch_page_data_propagating(page_entries, response) ==
    [ raised |-> response = "error",
      auctions |-> IF response = "200" THEN page_entries ELSE <<>> ]

\* fetch_page_data: the body on status 200; {'auctions': []} on another status
\* and on any exception, which is caught and logged.
fetch_page_data(page_entries, response) ==
    [ raised |-> FALSE,
      auctions |-> IF response = "200" THEN page_entries ELSE <<>> ]

\* Mutant of existence_queries: one find_one per entry of the page.
existence_queries_per_record(aucs) == Len(aucs)

\* The queries process_page_optimized sends to the store to learn which entries
\* exist: none for an empty page, else the one find of bulk_check_existing_auctions.
existence_queries(aucs) == IF aucs = <<>> THEN 0 ELSE 1

\* Mutant of batch_requests: one request per submitted item.
batch_requests_per_item(items) == Len(serializable_items(items))

\* The requests evaluate_items_batch sends to the valuation service: none when
\* no item is serializable, else the one POST to /evaluate-batch.
batch_requests(items) == IF serializable_items(items) = <<>> THEN 0 ELSE 1

\* The page request returns with `response` and
\* process_page_optimized runs on to its next await or to its end: the existence
\* query (dedup_ok: it does not raise), the bulk insert (insert_ok: the store
\* does not raise) and process_auctions_batch up to the batch request. raced:
\* the new fixed-price auctions of the page that another writer stores between
\* the existence query and the insert; none when this program is the only writer.
FetchReturn(p, response, dedup_ok, insert_ok, raced) ==
    LET data     == fetch_page_data(catalog[p], response)
        aucs     == data.auctions
        fetch_ok == response = "200"
        existing == bulk_check_existing_auctions(auctions, Range(aucs))
        new      == new_auctions(aucs, existing)
        bins     == bin_auctions(new)
        injected == Fault(fetch_ok, p, "fetch") \cup Fault(dedup_ok, p, "dedup")
                        \cup Fault(insert_ok, p, "insert") \cup Fault(raced = {}, p, "race")
        store_at_insert == other_writer_inserts(auctions, raced)
    IN
    /\ phase = "running"
    /\ tasks[p].st = "fetching"
    /\ raced \subseteq Range(bins)
    /\ raced # {} => dedup_ok /\ ~raises_key_error(new)
    /\ fault_count + Cardinality(injected) <= MaxFaults
    /\ aucs = <<>> => dedup_ok /\ insert_ok      \* the calls that are not reached
    /\ (~dedup_ok \/ bins = <<>> \/ raises_key_error(new)) => insert_ok   \* do not fail
    /\ faults' = faults \cup injected
    /\ fault_count' = fault_count + Cardinality(injected)
    /\ IF data.raised
       THEN /\ Finish(p, <<>>, <<>>, PageException(p), 0, 0)
            /\ UNCHANGED auctions
       ELSE IF aucs = <<>>
       THEN /\ Finish(p, <<>>, <<>>, PageResult(p, 0, 0, 0, 0, 0), existence_queries(aucs), 0)
            /\ UNCHANGED auctions
       ELSE IF ~dedup_ok \/ raises_key_error(new)
       THEN /\ Finish(p, <<>>, <<>>, PageException(p), existence_queries(aucs), 0)
            /\ UNCHANGED auctions
       ELSE /\ auctions' = IF insert_ok
                           THEN insert_many(store_at_insert, auction_inserts(new))
                           ELSE store_at_insert
            /\ IF batch_requests(items_data(bins)) = 0
               THEN Finish(p, bins, <<>>,
                           PageResult(p, Len(aucs), Cardinality(existing), Len(new),
                                      Len(bins), 0),
                           existence_queries(aucs), 0)
               ELSE /\ tasks' = [tasks EXCEPT ![p] =
                          [ st |-> "evaluating", bin_auctions |-> bins,
                            evaluation_results |-> <<>>,
                            result |-> PageResult(p, Len(aucs), Cardinality(existing),
                                                  Len(new), Len(bins), 0),
                            existence_queries |-> existence_queries(aucs),
                            batch_requests |-> batch_requests(items_data(bins)) ]]
                    /\ UNCHANGED sem_value
    /\ UNCHANGED << catalog, max_concurrent_pages, flips, evaluation_stats, phase, cycle,
                    max_concurrent, total_stats, deleted_count, prev_faults, reconciled,
                    reconciled_between, store_at_start >>
    /\ UNCHANGED client_vars
    /\ UNCHANGED reconciler_history
    /\ UNCHANGED sched_vars

\* Mutant of insert_many_flips: the collection is overwritten with the new flips.
insert_many_flips_replacing(coll, docs) == SeqToBag(docs)

\* DataBaseHandler.flips.insert_many(flips_to_insert): the documents are added;
\* the flips collection has no unique index, so none is rejected.
insert_many_flips(coll, docs) == coll (+) SeqToBag(docs)

\* evaluate_items_batch after the request: the results on status 200, [] on any
\* other status, a timeout or an exception.
evaluate_items_batch(items, eval_ok) ==
    IF eval_ok THEN ServiceBatchResults(serializable_items(items)) ELSE <<>>

\* Mutant of batch_stats: the counters are written back from the values read
\* before the request was sent (zero at the start of a run), so that the
\* increments other tasks made in between are overwritten.
batch_stats_stale(stats, items, results, eval_ok) ==
    IF eval_ok
    THEN [stats EXCEPT
            !.total_evaluations = Len(serializable_items(items)),
            !.profitable_found = Len(SelectSeq(results, LAMBDA r : r.isProfitable))]
    ELSE stats

\* evaluation_stats as evaluate_items_batch leaves them: updated on status 200 only.
batch_stats(stats, items, results, eval_ok) ==
    IF eval_ok
    THEN [stats EXCEPT
            !.total_evaluations = @ + Len(serializable_items(items)),
            !.profitable_found = @ + Len(SelectSeq(results, LAMBDA r : r.isProfitable))]
    ELSE stats

\* The batch request returns (eval_ok: with status 200) and process_auctions_batch
\* builds and inserts the flips (flips_ok: the store does not raise); the page
\* task returns its statistics.
EvalReturn(p, eval_ok, flips_ok) ==
    LET bins     == tasks[p].bin_auctions
        items    == items_data(bins)
        results  == evaluate_items_batch(items, eval_ok)
        to_ins   == flips_to_insert(bins, results)
        injected == Fault(eval_ok, p, "eval") \cup Fault(flips_ok, p, "flips")
    IN
    /\ phase = "running"
    /\ tasks[p].st = "evaluating"
    /\ fault_count + Cardinality(injected) <= MaxFaults
    /\ to_ins = <<>> => flips_ok
    /\ faults' = faults \cup injected
    /\ fault_count' = fault_count + Cardinality(injected)
    /\ evaluation_stats' = batch_stats(evaluation_stats, items, results, eval_ok)
    /\ flips' = IF flips_ok /\ to_ins # <<>> THEN insert_many_flips(flips, to_ins) ELSE flips
    /\ Finish(p, bins, results, [tasks[p].result EXCEPT !.profitable_flips = Len(to_ins)],
              tasks[p].existence_queries, tasks[p].batch_requests)
    /\ UNCHANGED << catalog, max_concurrent_pages, auctions, phase, cycle, max_concurrent,
                    total_stats, deleted_count, prev_faults, reconciled, reconciled_between,
                    store_at_start >>
    /\ UNCHANGED client_vars
    /\ UNCHANGED reconciler_history
    /\ UNCHANGED sched_vars

\* gather has every task's result: check_auctions_parallel adds up the statistics
\* and returns them.
check_auctions_parallel_end ==
    /\ phase = "running"
    /\ \A p \in CyclePages : tasks[p].st = "done"
    /\ total_stats' = TotalStats(page_results(tasks))
    /\ phase' = "idle"
    /\ reconciled' = FALSE
    /\ UNCHANGED << catalog, max_concurrent_pages, auctions, flips, evaluation_stats, cycle,
                    max_concurrent, sem_value, tasks, deleted_count, faults, prev_faults,
                    reconciled_between, store_at_start, fault_count >>
    /\ UNCHANGED client_vars
    /\ UNCHANGED reconciler_history

Join == check_auctions_parallel_end /\ UNCHANGED sched_vars

\* delete_ended_auctions_optimized with the ended feed reporting the ids `ended`
\* (feed_ok: the request succeeds). It is synchronous: no page task runs meanwhile.
\* monitoring_cycle runs it once after each ingestion pass.
delete_ended_auctions_optimized(ended, feed_ok) ==
    LET existing == bulk_check_existing_auctions(auctions, ended)
        del      == bulk_delete_auctions(auctions, existing)
    IN
    /\ fault_count + (IF feed_ok THEN 0 ELSE 1) <= MaxFaults
    /\ ~feed_ok => ended = {}
    /\ fault_count' = fault_count + (IF feed_ok THEN 0 ELSE 1)
    /\ IF feed_ok /\ ended # {} /\ existing # {}
       THEN /\ auctions' = del.store
            /\ deleted_count' = del.deleted_count
       ELSE /\ auctions' = auctions
            /\ deleted_count' = 0
    /\ reconciled' = TRUE
    /\ feed' = [ read |-> TRUE, ok |-> feed_ok, ended |-> ended ]
    /\ store_before' = auctions
    /\ deleted_ever' = IF feed_ok THEN deleted_ever \cup existing ELSE deleted_ever
    /\ UNCHANGED << catalog, max_concurrent_pages, flips, evaluation_stats, phase, cycle,
                    max_concurrent, sem_value, tasks, total_stats, faults, prev_faults,
                    reconciled_between, store_at_start >>
    /\ UNCHANGED client_vars

\* The reconciler runs between two ingestion cycles, at most once.
Reconcile(ended, feed_ok) ==
    /\ phase = "idle"
    /\ cycle >= 1
    /\ ~reconciled
    /\ delete_ended_auctions_optimized(ended, feed_ok)
    /\ UNCHANGED sched_vars

\* ------------------------------------------------- the evaluation client

\* The entries of the cache under which the item of auction u is looked up.
ItemKey(u) == get_cache_key(Entry(u).item_bytes)

\* Mutant of CacheLive: an entry is served up to and including the age ttl.
CacheLiveInclusive(current_time, cache_time, ttl) == current_time - cache_time <= ttl

\* The test of evaluate_item_async and of cleanup_cache on an entry's age.
CacheLive(current_time, cache_time, ttl) == current_time - cache_time < ttl

\* _evaluation_cache[cache_key] = (result, current_time)
cache_put(cache, key, result, current_time) ==
    [cache EXCEPT ![key] = << [result |-> result, cache_time |-> current_time] >>]

\* len(_evaluation_cache)
cache_len(cache) == Cardinality({ k \in CacheKeys : cache[k] # <<>> })

\* cleanup_cache: the entries that are still live are kept.
cleanup_cache(cache, current_time, ttl) ==
    [ k \in CacheKeys |->
        IF cache[k] # <<>> /\ CacheLive(current_time, cache[k][1].cache_time, ttl)
        THEN cache[k] ELSE <<>> ]

\* The keys that have a live entry now.
LiveKeys ==
    { k \in CacheKeys :
        evaluation_cache[k] # <<>>
        /\ CacheLive(clock, evaluation_cache[k][1].cache_time, cache_ttl) }

\* flip_data of get_item_networth_async.
SingleFlip(itemstats, result) ==
    [ itemstats |-> itemstats, profit |-> result.profit,
      percentage |-> result.percentage, targeted_price |-> result.estimatedValue,
      of |-> result.of ]

\* get_item_networth_async after evaluate_item_async has returned evaluation_result
\* (<<>> for None): the flip of a successful profitable result is inserted
\* (flips_ok: the store does not raise).
store_single_flip(itemstats, evaluation_result, flips_ok) ==
    IF /\ evaluation_result # <<>>
       /\ evaluation_result[1].success
       /\ evaluation_result[1].isProfitable
       /\ flips_ok
    THEN flips (+) SetToBag({SingleFlip(itemstats, evaluation_result[1])})
    ELSE flips

\* time.time() advances.
Tick ==
    /\ clock < MaxTime
    /\ clock' = clock + 1
    /\ UNCHANGED << catalog, max_concurrent_pages, auctions, flips, evaluation_stats, phase,
                    cycle, max_concurrent, sem_value, tasks, total_stats, deleted_count,
                    faults, prev_faults, reconciled, reconciled_between, store_at_start,
                    fault_count, evaluation_cache, cache_ttl, pending, batch,
                    evals_started, batches_started, lookup, reply >>
    /\ UNCHANGED reconciler_history
    /\ UNCHANGED sched_vars

\* get_item_networth_async(itemstats of auction u) up to its await or its end:
\* the payload is decoded, evaluate_item_async looks the key up and either
\* returns the live entry's result, whose flip is then inserted, or sends the
\* request POST /evaluate (a payload json cannot serialize raises before that).
NetworthCall(u, flips_ok) ==
    LET item_data == decode_data_optimized(Entry(u).item_bytes)
        cache_key == ItemKey(u)
        entry     == evaluation_cache[cache_key]
        hit       == entry # <<>> /\ CacheLive(clock, entry[1].cache_time, cache_ttl)
        sends     == ~hit /\ JsonSerializable(ItemData(u))
    IN
    /\ evals_started < MaxEvals
    /\ fault_count + (IF flips_ok THEN 0 ELSE 1) <= MaxFaults
    /\ fault_count' = fault_count + (IF flips_ok THEN 0 ELSE 1)
    /\ evals_started' = evals_started + 1
    /\ (item_data = <<>> \/ ~hit \/ ~entry[1].result.isProfitable) => flips_ok
    /\ IF item_data = <<>>
       THEN UNCHANGED << evaluation_stats, flips, pending, lookup >>
       ELSE /\ evaluation_stats' =
                 [evaluation_stats EXCEPT !.total_evaluations = @ + 1,
                                          !.cache_hits = IF hit THEN @ + 1 ELSE @]
            /\ lookup' = [ made |-> TRUE, uuid |-> u, key |-> cache_key, at |-> clock,
                           entry |-> entry,
                           answered |-> IF hit THEN <<entry[1].result>> ELSE <<>>,
                           posted |-> sends ]
            /\ flips' = IF hit
                        THEN store_single_flip(ItemData(u).itemstats, <<entry[1].result>>, flips_ok)
                        ELSE flips
            /\ pending' = IF sends
                          THEN pending (+) SetToBag({[ uuid |-> u, cache_key |-> cache_key,
                                                       current_time |-> clock ]})
                          ELSE pending
    /\ UNCHANGED << catalog, max_concurrent_pages, auctions, phase, cycle, max_concurrent,
                    sem_value, tasks, total_stats, deleted_count, faults, prev_faults,
                    reconciled, reconciled_between, store_at_start,
                    evaluation_cache, cache_ttl, clock, batch, batches_started, reply >>
    /\ UNCHANGED reconciler_history
    /\ UNCHANGED sched_vars

\* The reply to a request of evaluate_item_async arrives (status_ok: with status
\* 200; success: the success flag of its body): the result is cached under the
\* time taken before the request, the cache is cleaned when it has grown past the
\* threshold, and get_item_networth_async inserts the flip of a successful
\* profitable result. Any other outcome returns None.
NetworthReply(req, status_ok, success, flips_ok) ==
    LET result == IF success THEN ServiceResult(ItemData(req.uuid))
                             ELSE FailedResult(ItemData(req.uuid))
        cached == cache_put(evaluation_cache, req.cache_key, result, req.current_time)
        returned == IF status_ok THEN <<result>> ELSE <<>>
        failed == << ~status_ok, ~success, ~flips_ok >>
        failures == Cardinality({ i \in 1..3 : failed[i] })
    IN
    /\ BagIn(req, pending)
    /\ fault_count + failures <= MaxFaults
    /\ fault_count' = fault_count + failures
    /\ ~status_ok => success                     \* no body is read
    /\ (~status_ok \/ ~result.isProfitable) => flips_ok
    /\ pending' = pending (-) SetToBag({req})
    /\ evaluation_cache' =
          IF ~status_ok THEN evaluation_cache
          ELSE IF cache_len(cached) > CacheCleanupThreshold
               THEN cleanup_cache(cached, clock, cache_ttl)
               ELSE cached
    /\ evaluation_stats' =
          IF status_ok /\ result.isProfitable
          THEN [evaluation_stats EXCEPT !.profitable_found = @ + 1]
          ELSE evaluation_stats
    /\ reply' = [ made |-> TRUE, key |-> req.cache_key, stamp |-> req.current_time,
                  ok |-> status_ok, result |-> returned ]
    /\ flips' = store_single_flip(ItemData(req.uuid).itemstats, returned, flips_ok)
    /\ UNCHANGED << catalog, max_concurrent_pages, auctions, phase, cycle, max_concurrent,
                    sem_value, tasks, total_stats, deleted_count, faults, prev_faults,
                    reconciled, reconciled_between, store_at_start,
                    cache_ttl, clock, batch, evals_started, batches_started, lookup >>
    /\ UNCHANGED reconciler_history
    /\ UNCHANGED sched_vars

\* process_auctions_batch(aucs) called on the client, up to the batch request or,
\* when no item is left to send, to its end.
BatchCall(aucs) ==
    /\ batch.st = "idle"
    /\ batches_started < MaxBatches
    /\ batches_started' = batches_started + 1
    /\ batch' = [ st |-> IF serializable_items(items_data(aucs)) = <<>> THEN "done" ELSE "pending",
                  auctions |-> aucs, live_keys |-> LiveKeys,
                  hits_at_call |-> evaluation_stats.cache_hits,
                  evaluation_results |-> <<>>, profitable_count |-> 0 ]
    /\ UNCHANGED << catalog, max_concurrent_pages, auctions, flips, evaluation_stats, phase,
                    cycle, max_concurrent, sem_value, tasks, total_stats, deleted_count,
                    faults, prev_faults, reconciled, reconciled_between, store_at_start,
                    fault_count, evaluation_cache, cache_ttl, clock, pending,
                    evals_started, lookup, reply >>
    /\ UNCHANGED reconciler_history
    /\ UNCHANGED sched_vars

\* The batch request returns (eval_ok: with status 200) and process_auctions_batch
\* builds and inserts the flips (flips_ok: the store does not raise).
BatchReturn(eval_ok, flips_ok) ==
    LET aucs    == batch.auctions
        items   == items_data(aucs)
        results == evaluate_items_batch(items, eval_ok)
        to_ins  == flips_to_insert(aucs, results)
    IN
    /\ batch.st = "pending"
    /\ to_ins = <<>> => flips_ok
    /\ fault_count + Cardinality({ ok \in {eval_ok, flips_ok} : ~ok }) <= MaxFaults
    /\ fault_count' = fault_count + Cardinality({ ok \in {eval_ok, flips_ok} : ~ok })
    /\ evaluation_stats' = batch_stats(evaluation_stats, items, results, eval_ok)
    /\ flips' = IF flips_ok /\ to_ins # <<>> THEN insert_many_flips(flips, to_ins) ELSE flips
    /\ batch' = [batch EXCEPT !.st = "done", !.evaluation_results = results,
                              !.profitable_count = Len(to_ins)]
    /\ UNCHANGED << catalog, max_concurrent_pages, auctions, phase, cycle, max_concurrent,
                    sem_value, tasks, total_stats, deleted_count, faults, prev_faults,
                    reconciled, reconciled_between, store_at_start,
                    evaluation_cache, cache_ttl, clock, pending, evals_started,
                    batches_started, lookup, reply >>
    /\ UNCHANGED reconciler_history
    /\ UNCHANGED sched_vars

Next ==
    \/ StartCycle
    \/ \E p \in Pages : Acquire(p)
    \/ \E p \in Pages, response \in Responses, dedup_ok, insert_ok \in BOOLEAN :
          FetchReturn(p, response, dedup_ok, insert_ok, {})
    \/ \E p \in Pages, eval_ok, flips_ok \in BOOLEAN : EvalReturn(p, eval_ok, flips_ok)
    \/ Join
    \/ \E ended \in SUBSET WellFormed, feed_ok \in BOOLEAN : Reconcile(ended, feed_ok)

Spec == Init /\ [][Next]_vars

\* The evaluation client driven call by call, with no ingestion cycle running:
\* get_item_networth_async and process_auctions_batch called on any auction, the
\* replies arriving in any order, the clock advancing in between.
InitEval ==
    /\ catalog = [p \in Pages |-> <<>>]
    /\ max_concurrent_pages = 1
    /\ cache_ttl \in 0..MaxTtl
    /\ ModuleInit
    /\ CycleInit
    /\ SchedInit
    /\ cached_files = [t \in TableNames |-> 0]

\* The auctions get_item_networth_async is called on: the fixed-price unclaimed
\* ones, the only ones the handlers pass on for evaluation.
Evaluated == { u \in WellFormed : IsOpenBin(u) }

NextEval ==
    \/ Tick
    \/ \E u \in Evaluated, flips_ok \in BOOLEAN : NetworthCall(u, flips_ok)
    \/ \E req \in BagToSet(pending), status_ok, success, flips_ok \in BOOLEAN :
          NetworthReply(req, status_ok, success, flips_ok)
    \/ \E aucs \in DistinctSeqs(MaxBatchLen) : BatchCall(aucs)
    \/ \E eval_ok, flips_ok \in BOOLEAN : BatchReturn(eval_ok, flips_ok)

SpecEval == InitEval /\ [][NextEval]_vars

\* The ingestion cycle over a catalog that may hold malformed entries.
InitRaw ==
    /\ catalog \in [Pages -> RawSeqs(MaxPageLen)]
    /\ max_concurrent_pages \in 1..MaxConcurrentPages
    /\ cache_ttl = MaxTtl
    /\ ModuleInit
    /\ CycleInit
    /\ SchedInit
    /\ cached_files = [t \in TableNames |-> 0]

SpecRaw == InitRaw /\ [][Next]_vars

\* The records another writer stores during one page task: at most one.
RacedSets == {{}} \cup { {u} : u \in WellFormed }

\* The ingestion cycle with another writer on the auctions collection.
NextRace ==
    \/ StartCycle
    \/ \E p \in Pages : Acquire(p)
    \/ \E p \in Pages, response \in Responses, dedup_ok, insert_ok \in BOOLEAN,
         raced \in RacedSets :
          FetchReturn(p, response, dedup_ok, insert_ok, raced)
    \/ \E p \in Pages, eval_ok, flips_ok \in BOOLEAN : EvalReturn(p, eval_ok, flips_ok)
    \/ Join
    \/ \E ended \in SUBSET WellFormed, feed_ok \in BOOLEAN : Reconcile(ended, feed_ok)

SpecRace == Init /\ [][NextRace]_vars

\* -------------------------------------------- AuctionFlipperCoreOptimized.py

\* The variables of the ingestion cycle, the reconciler and the stores.
cycle_vars == << catalog, max_concurrent_pages, auctions, flips, evaluation_stats, phase,
                 cycle, max_concurrent, sem_value, tasks, total_stats, deleted_count,
                 faults, prev_faults, reconciled, reconciled_between, store_at_start,
                 fault_count >>

\* The calls of monitoring_cycle begun so far.
MonitoringCyclesBegun ==
    cycles_completed + (IF pc \in {"pass", "reconcile", "reeval"} /\ cycle >= 2 THEN 1 ELSE 0)

\* The price requests and the page count request that failed, given their outcomes.
SchedFailures(oks, meta) ==
    { t \in TableNames : ~oks[t] } \cup (IF meta = "200" THEN {} ELSE {"meta"})

\* The page count initial_launch and monitoring_cycle take from the metadata
\* request, whose status they do not test. meta = "200": the body names the
\* catalog's page count; "500": another status with a JSON body that has no key
\* 'totalPages' (the error body of the remote API), read with data.get and its
\* default; "error": the request or the parsing of the body raises, and the
\* except branch sets the fallback.
page_count(meta, default, fallback) ==
    CASE meta = "200" -> NumPages
      [] meta = "500" -> default
      [] OTHER        -> fallback

\* The outcomes of the price requests when none is sent.
NoRequests == [t \in TableNames |-> TRUE]

\* signal_handler: SIGINT or SIGTERM arrives, at any moment.
Signal ==
    /\ running
    /\ pc # "stopped"
    /\ running' = FALSE
    /\ signal_seen' = << [ begun |-> MonitoringCyclesBegun, at |-> pc,
                           in_flight |-> IF phase = "running"
                                         THEN { p \in CyclePages : tasks[p].st # "done" }
                                         ELSE {} ] >>
    /\ UNCHANGED total_pages
    /\ UNCHANGED << pc, cycles_completed, sessions_closed, cached_files, price_tables,
                    price_update, price_fetches, refresh_log, tables_refreshed, tables_before,
                    reevaluations, reevaluated, sched_faults >>
    /\ UNCHANGED cycle_vars
    /\ UNCHANGED client_vars
    /\ UNCHANGED reconciler_history

\* run calls initial_launch: the prices are updated (oks: which of the three
\* requests succeed), the page count is asked for (meta: what the request comes
\* back with) and check_auctions_parallel is started on that many pages with the
\* configured concurrency.
InitialLaunch(oks, meta) ==
    LET upd == update_cached_prices_async(cached_files, price_tables, oks, price_fetches + 1)
    IN
    /\ pc = "start"
    /\ fault_count + Cardinality(SchedFailures(oks, meta)) <= MaxFaults
    /\ fault_count' = fault_count + Cardinality(SchedFailures(oks, meta))
    /\ cached_files' = upd.cached_files
    /\ price_tables' = upd.price_tables
    /\ price_update' = upd.result
    /\ price_fetches' = price_fetches + 1
    /\ tables_refreshed' = upd.price_tables
    /\ tables_before' = price_tables
    /\ sched_faults' = SchedFailures(oks, meta)
    /\ total_pages' = page_count(meta, LaunchDefaultPages, LaunchFallbackPages)
    /\ check_auctions_parallel_begin(total_pages', max_concurrent_pages)
    /\ pc' = "pass"
    /\ UNCHANGED << running, cycles_completed, sessions_closed, refresh_log,
                    reevaluations, reevaluated, signal_seen >>

\* Mutant of after_pass: the pass of a monitoring cycle is not followed by the
\* reconciler.
after_pass_skipping(initial) == IF initial THEN "reeval" ELSE "loop_test"

\* What follows check_auctions_parallel: in initial_launch the re-evaluation of
\* the stored auctions, in monitoring_cycle the reconciler.
after_pass(initial) == IF initial THEN "reeval" ELSE "reconcile"

\* check_auctions_parallel returns to initial_launch or to monitoring_cycle.
PassReturns ==
    /\ pc = "pass"
    /\ check_auctions_parallel_end
    /\ pc' = after_pass(cycle = 1)
    /\ UNCHANGED total_pages
    /\ UNCHANGED << running, cycles_completed, sessions_closed, cached_files, price_tables,
                    price_update, price_fetches, refresh_log, tables_refreshed, tables_before,
                    reevaluations, reevaluated, signal_seen, sched_faults >>

\* Mutant of reevaluate_all_existing_auctions: no stored auction is evaluated.
reevaluate_nothing(coll) == EmptyBag

\* The flips reevaluate_all_existing_auctions finds: one for each stored auction
\* whose item can be evaluated and is valued above its price.
reevaluate_all_existing_auctions(coll) ==
    LET found == { u \in StoredUuids(coll) :
                     /\ decode_data_optimized(Entry(u).item_bytes) # <<>>
                     /\ JsonSerializable(ItemData(u))
                     /\ ServiceResult(ItemData(u)).isProfitable }
    IN  SetToBag({ SingleFlip(ItemData(u).itemstats, ServiceResult(ItemData(u))) : u \in found })

\* The full re-evaluation runs and the caller goes on: initial_launch returns to
\* run, which comes to the loop test.
Reevaluate ==
    /\ pc = "reeval"
    /\ flips' = flips (+) reevaluate_all_existing_auctions(auctions)
    /\ reevaluations' = reevaluations + 1
    /\ reevaluated' = StoredUuids(auctions)
    /\ pc' = IF cycle = 1 THEN "loop_test" ELSE "reconcile"
    /\ UNCHANGED total_pages
    /\ UNCHANGED << running, cycles_completed, sessions_closed, cached_files, price_tables,
                    price_update, price_fetches, refresh_log, tables_refreshed, tables_before,
                    signal_seen, sched_faults >>
    /\ UNCHANGED << catalog, max_concurrent_pages, auctions, evaluation_stats, phase,
                    cycle, max_concurrent, sem_value, tasks, total_stats, deleted_count,
                    faults, prev_faults, reconciled, reconciled_between, store_at_start,
                    fault_count >>
    /\ UNCHANGED client_vars
    /\ UNCHANGED reconciler_history

\* Mutant of loop_continues: the loop goes on whatever self.running is.
loop_continues_always(flag) == TRUE

\* Mutant of loop_continues: the loop is left after one test.
loop_never_continues(flag) == FALSE

\* while self.running
loop_continues(flag) == flag

\* Mutant of refresh_due: the prices are fetched in every cycle.
refresh_due_always(completed) == TRUE

\* monitoring_cycle fetches the prices when cycles_completed % 5 == 0.
refresh_due(completed) == completed % PriceRefreshInterval = 0

\* The loop test passes and monitoring_cycle runs up to check_auctions_parallel:
\* the prices are updated from the remote feeds when due and reloaded from the
\* files otherwise, the page count is asked for, and the pass is started with
\* max_concurrent=8.
MonitoringCycle(oks, meta) ==
    LET due == refresh_due(cycles_completed)
        upd == update_cached_prices_async(cached_files, price_tables, oks, price_fetches + 1)
    IN
    /\ pc = "loop_test"
    /\ loop_continues(running)
    /\ cycles_completed < MaxMonitoringCycles
    /\ ~due => oks = NoRequests
    /\ fault_count + Cardinality(SchedFailures(oks, meta)) <= MaxFaults
    /\ fault_count' = fault_count + Cardinality(SchedFailures(oks, meta))
    /\ IF due
       THEN /\ cached_files' = upd.cached_files
            /\ price_tables' = upd.price_tables
            /\ price_update' = upd.result
            /\ price_fetches' = price_fetches + 1
            /\ refresh_log' = refresh_log \cup {cycles_completed}
            /\ tables_refreshed' = upd.price_tables
            /\ tables_before' = price_tables
       ELSE /\ price_tables' = readprices(cached_files, price_tables)
            /\ UNCHANGED << cached_files, price_update, price_fetches, refresh_log,
                            tables_refreshed, tables_before >>
    /\ sched_faults' = SchedFailures(oks, meta)
    /\ total_pages' = page_count(meta, MonitoringDefaultPages, MonitoringFallbackPages)
    /\ check_auctions_parallel_begin(total_pages', MonitoringMaxConcurrent)
    /\ pc' = "pass"
    /\ UNCHANGED << running, cycles_completed, sessions_closed, reevaluations,
                    reevaluated, signal_seen >>

\* Mutant of reconciler_raises: a failed feed request raises to monitoring_cycle.
reconciler_raises_on_failure(feed_ok) == ~feed_ok

\* delete_ended_auctions_optimized catches every exception and returns 0.
reconciler_raises(feed_ok) == FALSE

\* monitoring_cycle runs the reconciler, counts the cycle and returns to run; an
\* exception would leave the loop through run's handler.
ReconcileStep(ended, feed_ok) ==
    /\ pc = "reconcile"
    /\ delete_ended_auctions_optimized(ended, feed_ok)
    /\ cycles_completed' = IF reconciler_raises(feed_ok) THEN cycles_completed
                                                         ELSE cycles_completed + 1
    /\ pc' = IF reconciler_raises(feed_ok) THEN "cleanup" ELSE "loop_test"
    /\ UNCHANGED total_pages
    /\ UNCHANGED << running, sessions_closed, cached_files, price_tables, price_update,
                    price_fetches, refresh_log, tables_refreshed, tables_before, reevaluations,
                    reevaluated, signal_seen, sched_faults >>

\* The loop test fails: run leaves the loop for its finally clause.
LeaveLoop ==
    /\ pc = "loop_test"
    /\ ~loop_continues(running)
    /\ pc' = "cleanup"
    /\ UNCHANGED total_pages
    /\ UNCHANGED << running, cycles_completed, sessions_closed, cached_files, price_tables,
                    price_update, price_fetches, refresh_log, tables_refreshed, tables_before,
                    reevaluations, reevaluated, signal_seen, sched_faults >>
    /\ UNCHANGED cycle_vars
    /\ UNCHANGED client_vars
    /\ UNCHANGED reconciler_history

\* cleanup: the sessions are closed and the evaluation cache is cleared.
Cleanup ==
    /\ pc = "cleanup"
    /\ sessions_closed' = TRUE
    /\ evaluation_cache' = [k \in CacheKeys |-> <<>>]
    /\ pc' = "stopped"
    /\ UNCHANGED total_pages
    /\ UNCHANGED << running, cycles_completed, cached_files, price_tables, price_update,
                    price_fetches, refresh_log, tables_refreshed, tables_before, reevaluations,
                    reevaluated, signal_seen, sched_faults >>
    /\ UNCHANGED cycle_vars
    /\ UNCHANGED << cache_ttl, clock, pending, batch, evals_started, batches_started,
                    lookup, reply >>
    /\ UNCHANGED reconciler_history

\* The catalog the scheduler is run on: a1 on page 0, page 1 empty.
RunCatalog == [p \in Pages |-> IF p = 0 THEN <<"a1">> ELSE <<>>]

\* The ended feeds the reconciler reads when the scheduler runs.
RunEnded == { {}, {"a1"} }

\* The program started by main: on a machine that never ran it, or with the price
\* files of an earlier run in place.
InitRun ==
    /\ catalog = RunCatalog
    /\ max_concurrent_pages \in 1..MaxConcurrentPages
    /\ cache_ttl = MaxTtl
    /\ ModuleInit
    /\ CycleInit
    /\ SchedInit
    /\ cached_files \in { [t \in TableNames |-> NoData], [t \in TableNames |-> 0] }

\* A step of a page task of check_auctions_parallel.
NextTask ==
    \/ \E p \in Pages : Acquire(p)
    \/ \E p \in Pages, response \in Responses, dedup_ok, insert_ok \in BOOLEAN :
          FetchReturn(p, response, dedup_ok, insert_ok, {})
    \/ \E p \in Pages, eval_ok, flips_ok \in BOOLEAN : EvalReturn(p, eval_ok, flips_ok)

\* A step of run itself, of initial_launch or of monitoring_cycle.
NextScheduler ==
    \/ \E oks \in [TableNames -> BOOLEAN], meta \in Responses : InitialLaunch(oks, meta)
    \/ PassReturns
    \/ Reevaluate
    \/ \E oks \in [TableNames -> BOOLEAN], meta \in Responses : MonitoringCycle(oks, meta)
    \/ \E ended \in RunEnded, feed_ok \in BOOLEAN : ReconcileStep(ended, feed_ok)
    \/ LeaveLoop
    \/ Cleanup

NextRun == Signal \/ NextTask \/ NextScheduler

SpecRun == InitRun /\ [][NextRun]_vars

\* The program started with the price files of an earlier run in place.
InitRunFair == InitRun /\ cached_files = [t \in TableNames |-> 0]

\* A page task is waiting for the page or for the valuation service.
AwaitingResponse(p) == tasks[p].st \in {"fetching", "evaluating"}

\* The same under the scheduling of the event loop: a coroutine that can go on is
\* resumed in the end (run and the functions it awaits; a page task waiting for
\* the semaphore), and no request is waited for forever, the sessions having
\* timeouts: a page task does not stay at its page request or at its batch
\* request. A signal need not come.
SpecRunFair ==
    /\ InitRunFair /\ [][NextRun]_vars
    /\ WF_vars(NextScheduler)
    /\ \A p \in Pages : WF_vars(Acquire(p))
    /\ \A p \in Pages : []<>(~AwaitingResponse(p))

\* update_cached_prices_async is called, by initial_launch or by a monitoring
\* cycle, and each of its three requests succeeds or fails.
UpdatePrices(oks) ==
    LET upd == update_cached_prices_async(cached_files, price_tables, oks, price_fetches + 1)
    IN
    /\ price_fetches < MaxRefreshes
    /\ cached_files' = upd.cached_files
    /\ price_tables' = upd.price_tables
    /\ price_update' = upd.result
    /\ price_fetches' = price_fetches + 1
    /\ tables_refreshed' = upd.price_tables
    /\ tables_before' = price_tables
    /\ UNCHANGED total_pages
    /\ UNCHANGED << pc, running, cycles_completed, sessions_closed, refresh_log,
                    reevaluations, reevaluated, signal_seen, sched_faults >>
    /\ UNCHANGED cycle_vars
    /\ UNCHANGED client_vars
    /\ UNCHANGED reconciler_history

\* The prices on their own: the files of an earlier run may be there or not, and
\* update_cached_prices_async is called again and again.
SpecPrices == InitRun /\ [][\E oks \in [TableNames -> BOOLEAN] : UpdatePrices(oks)]_vars

\* ------------------------------------------------------------------ claims

\* Page tasks that hold the semaphore: page request sent, processing not finished.
InFlight == Cardinality({ p \in Pages : tasks[p].st \in {"fetching", "evaluating"} })

\* check_auctions_parallel has returned and nothing has been deleted since.
CycleEnded == phase = "idle" /\ cycle >= 1 /\ ~reconciled

FaultKinds == {"fetch", "dedup", "insert", "eval", "flips"}

\* The pages on which some call failed in the current cycle.
FaultyPages == { p \in Pages : \E k \in FaultKinds : <<p, k>> \in faults }

\* The failures that keep a page's records out of the store.
IngestFaults == Pages \X {"fetch", "dedup", "insert"}

OpenBinOn(p) == { u \in Range(catalog[p]) : IsOpenBin(u) }

\* Number of flip documents whose itemstats.uuid is u.
FlipCount(u) ==
    LET of_u == { f \in BagToSet(flips) : f.itemstats.uuid = u }
    IN  IF of_u = {} THEN 0 ELSE BagCardinality([ f \in of_u |-> flips[f] ])

C2_OneFlipPerRecord == \A u \in UUIDs : FlipCount(u) <= 1

C4_PartialFailureIsolation ==
    (CycleEnded /\ FaultyPages # {}) =>
        /\ \A q \in Pages \ FaultyPages :
              /\ tasks[q].result.kind = "dict"
              /\ tasks[q].result.total_auctions = Len(catalog[q])
              /\ OpenBinOn(q) \subseteq StoredUuids(auctions)
        /\ total_stats.total_pages_processed =
              Cardinality({ p \in Pages : <<p, "dedup">> \notin faults })
        /\ total_stats.total_auctions =
              SumSeq([ i \in 1..NumPages |->
                         IF <<i - 1, "dedup">> \in faults \/ <<i - 1, "fetch">> \in faults
                         THEN 0 ELSE Len(catalog[i - 1]) ])

C4_Witness ==
    /\ CycleEnded
    /\ \E p \in Pages, q \in Pages \ FaultyPages :
          /\ <<p, "dedup">> \in faults
          /\ tasks[q].result.kind = "dict"
          /\ tasks[q].result.bin_auctions > 0
          /\ total_stats.bin_auctions > 0

\* The page-level failures the returned statistics show: the pages of the cycle
\* that are not counted as processed.
PageFailures(stats) == NumPages - stats.total_pages_processed

\* C5: when exactly one page fetch failed in a cycle and nothing else did, the
\* returned statistics show one page-level failure.
C5_OneFailureRecorded ==
    (CycleEnded /\ \E p \in Pages : faults = {<<p, "fetch">>})
        => PageFailures(total_stats) = 1

\* C6: every flip carries the uuid (and so the asking price) of the auction whose
\* item the result it was built from was computed for.
C6_FlipMatchesResult == \A f \in BagToSet(flips) : f.of = f.itemstats.uuid

\* The items the direct batch call sent, or is about to send, to the service.
BatchSent == serializable_items(items_data(batch.auctions))

\* C7: in a batch evaluation no item whose key had a live cache entry when the
\* batch was submitted is sent to the service; once the batch has returned, the
\* cache-hit counter has grown by one for each such item, and the result of every
\* item that was sent is in the cache.
C7_BatchUsesCache ==
    /\ batch.st \in {"pending", "done"} =>
          \A i \in 1..Len(BatchSent) :
              get_cache_key(BatchSent[i].itemstats.item_bytes) \notin batch.live_keys
    /\ batch.st = "done" =>
          /\ evaluation_stats.cache_hits >= batch.hits_at_call +
                Cardinality({ i \in 1..Len(items_data(batch.auctions)) :
                    get_cache_key(items_data(batch.auctions)[i].itemstats.item_bytes)
                        \in batch.live_keys })
          /\ \A i \in 1..Len(batch.evaluation_results) :
                evaluation_cache[get_cache_key(BatchSent[i].itemstats.item_bytes)] # <<>>

EvaluationError == [error |-> "service-unavailable"]

\* C9: when the batch request of a page task failed, evaluate_items_batch has
\* reported every item it sent as EvaluationError.
C9_FailureReportedPerItem ==
    \A p \in Pages :
        (tasks[p].st = "done" /\ <<p, "eval">> \in faults) =>
            LET sent == serializable_items(items_data(tasks[p].bin_auctions))
                res  == tasks[p].evaluation_results
            IN  /\ Len(res) = Len(sent)
                /\ \A i \in 1..Len(res) : res[i] = EvaluationError

\* C10: after one cycle from an empty store in which no call failed, every
\* fixed-price unclaimed entry of the catalog is stored, no other entry is, and
\* every stored entry that was evaluated with an estimated value v above its
\* price p has exactly one flip, with profit v - p and percentage 100 (v - p) / p.
C10_EndToEnd ==
    (CycleEnded /\ cycle = 1 /\ faults = {}) =>
        /\ \A p \in Pages : OpenBinOn(p) \subseteq StoredUuids(auctions)
        /\ \A u \in StoredUuids(auctions) : IsOpenBin(u)
        /\ \A u \in StoredUuids(auctions) :
              LET v == EstimatedValue(Entry(u).item_bytes)
                  pr == Entry(u).starting_bid
              IN  (\E p \in Pages, i \in 1..MaxPageLen :
                       /\ i <= Len(tasks[p].evaluation_results)
                       /\ tasks[p].evaluation_results[i].of = u
                       /\ v > pr)
                  => /\ FlipCount(u) = 1
                     /\ \A f \in BagToSet(flips) : f.itemstats.uuid = u
                          => /\ f.profit = v - pr
                             /\ f.percentage = (100 * (v - pr)) \div pr

\* C11: after a reconciliation that read the ended feed E on the store S, the
\* store holds exactly the records of S whose uuid is not in E, and the value
\* returned is the number of records of S whose uuid is in E; an id of E that is
\* not stored changes nothing.
C11_ReconcileDeletesIntersection ==
    (reconciled /\ feed.read /\ feed.ok) =>
        /\ \A u \in UUIDs :
              StoredCount(auctions, u) =
                  IF u \in feed.ended THEN 0 ELSE StoredCount(store_before, u)
        /\ BagToSet(auctions) \subseteq BagToSet(store_before)
        /\ deleted_count = Cardinality(StoredUuids(store_before) \cap feed.ended)
        /\ deleted_count = BagCardinality(store_before) - BagCardinality(auctions)

C11_Witness ==
    /\ reconciled /\ feed.read /\ feed.ok
    /\ BagCardinality(store_before) = 3
    /\ Cardinality(feed.ended) = 2
    /\ Cardinality(feed.ended \cap StoredUuids(store_before)) = 1
    /\ deleted_count = 1
    /\ BagCardinality(auctions) = 2

\* The page task has built and inserted its batch and nothing has been deleted
\* since.
PastInsert(p) ==
    /\ phase = "running" \/ CycleEnded
    /\ tasks[p].st \in {"evaluating", "done"}
    /\ tasks[p].result.kind = "dict"

\* C12: when the batch insert of a page hits a duplicate key on one record, the
\* other records of the batch are inserted all the same: once the insert has
\* run (the store being available), every record of the batch is in the store.
C12_ConflictDoesNotAbortBatch ==
    \A p \in Pages :
        (PastInsert(p) /\ <<p, "insert">> \notin faults)
            => Range(tasks[p].bin_auctions) \subseteq StoredUuids(auctions)

\* C13: the store never holds two records with the same uuid, also when a
\* record is stored by another writer after a page task's existence query has
\* passed it as new.
C13_UniqueIdentifier == \A u \in UUIDs : StoredCount(auctions, u) <= 1

C13_Witness ==
    \E p \in Pages, u \in UUIDs :
        /\ PastInsert(p)
        /\ faults = {<<p, "race">>}
        /\ tasks[p].bin_auctions # <<>>
        /\ u = tasks[p].bin_auctions[1]
        /\ StoredCount(auctions, u) = 1

\* C14: a record that the reconciler has deleted is never stored again by a
\* later ingestion cycle.
C14_DeletedNeverReinserted == deleted_ever \cap StoredUuids(auctions) = {}

C16_OnlyParseablePersisted ==
    /\ \A d \in BagToSet(auctions) :
          IsOpenBin(d.uuid) /\ decode_data_optimized(d.item_bytes) # <<>>
    /\ \A p \in Pages : \A i \in 1..Len(tasks[p].evaluation_results) :
          LET u == tasks[p].evaluation_results[i].of
          IN  IsOpenBin(u) /\ decode_data_optimized(Entry(u).item_bytes) # <<>>

\* C17: a page task that has run has sent exactly one existence query to the
\* store when its page came back with entries, whatever their number, and none
\* when the page came back empty; a task that has not run has sent none.
C17_OneExistenceQueryPerPage ==
    \A p \in Pages :
        tasks[p].existence_queries =
            IF /\ tasks[p].st \in {"evaluating", "done"}
               /\ <<p, "fetch">> \notin faults
               /\ catalog[p] # <<>>
            THEN 1 ELSE 0

C17_Witness ==
    \E p \in Pages :
        /\ tasks[p].st = "done" /\ tasks[p].result.kind = "dict"
        /\ tasks[p].result.total_auctions = 2
        /\ tasks[p].result.existing_auctions = 1
        /\ tasks[p].result.new_auctions = 1
        /\ tasks[p].existence_queries = 1

\* The item of auction u can be submitted to the valuation service.
Evaluable(u) ==
    /\ decode_data_optimized(Entry(u).item_bytes) # <<>>
    /\ JsonSerializable(ItemData(u))

\* C18: a page task that has passed its insert has sent exactly one batch
\* request when the page has at least one new entry to evaluate, whatever their
\* number, and none otherwise.
C18_OneBatchRequestPerPage ==
    \A p \in Pages :
        tasks[p].batch_requests =
            IF /\ tasks[p].st \in {"evaluating", "done"}
               /\ \E u \in Range(tasks[p].bin_auctions) : Evaluable(u)
            THEN 1 ELSE 0

C18_Witness ==
    \E p \in Pages :
        /\ tasks[p].st = "done"
        /\ Cardinality({ u \in Range(tasks[p].bin_auctions) : Evaluable(u) }) = 2
        /\ Len(tasks[p].evaluation_results) = 2
        /\ tasks[p].batch_requests = 1

\* C19: a page task whose page request failed, by a status other than 200 or
\* by an exception of the HTTP client, has not raised: it went on with an empty
\* list of auctions and has returned the statistics of an empty page.
C19_FetchNeverRaises ==
    \A p \in Pages :
        (tasks[p].st = "done" /\ <<p, "fetch">> \in faults) =>
            /\ tasks[p].result = PageResult(p, 0, 0, 0, 0, 0)
            /\ tasks[p].bin_auctions = <<>>

C19_Witness ==
    \E p \in Pages :
        /\ tasks[p].st = "done" /\ <<p, "fetch">> \in faults
        /\ Len(catalog[p]) = 2
        /\ tasks[p].result.kind = "dict"
        /\ tasks[p].result.total_auctions = 0
        /\ CycleEnded
        /\ total_stats.total_pages_processed = NumPages

\* C20: when a page was fetched and none of its calls failed, the task has not
\* raised and every well-formed fixed-price unclaimed entry of the page is
\* stored, also when another entry of the page misses a required key.
C20_MalformedEntryDroppedAlone ==
    \A p \in Pages :
        ( /\ tasks[p].st = "done"
          /\ phase = "running" \/ CycleEnded
          /\ \A k \in FaultKinds : <<p, k>> \notin faults )
            => /\ tasks[p].result.kind = "dict"
               /\ (OpenBinOn(p) \cap WellFormed) \subseteq StoredUuids(auctions)

\* C21: the initial scan is the first pass and the only one outside the monitoring
\* loop; the first monitoring cycle begins only after it has returned; in a
\* monitoring cycle the reconciler starts only when the pass has returned with
\* every page task finished, and the next cycle begins only when the reconciler
\* has run.
C21_InitialScanThenOrderedCycles ==
    /\ (pc = "start") <=> (cycle = 0)
    /\ cycle >= 1 => cycle = 1 + MonitoringCyclesBegun
    /\ phase = "running" => pc = "pass"
    /\ pc = "reconcile" =>
          /\ cycle >= 2
          /\ phase = "idle"
          /\ \A p \in CyclePages : tasks[p].st = "done"
          /\ ~reconciled
    /\ (pc = "loop_test" /\ cycle >= 2) => (reconciled /\ cycles_completed = cycle - 1)
    /\ (pc = "pass" /\ cycle >= 3) => reconciled_between

C21_Witness ==
    /\ pc = "pass"
    /\ cycle = 3
    /\ cycles_completed = 1
    /\ reconciled_between
    /\ \E p \in Pages : tasks[p].st = "done"

\* initial_launch has returned.
LaunchDone == cycle >= 2 \/ (cycle = 1 /\ pc \in {"loop_test", "cleanup", "stopped"})

\* C22: the full re-evaluation starts only when the initial pass has returned
\* with every page task finished, it has run exactly once when the initial
\* launch is over and never runs again, and it covered every stored auction:
\* when the monitoring loop is reached each stored auction that is valued above
\* its price has its flip.
C22_ReevaluationOnceAtStartup ==
    /\ reevaluations = (IF LaunchDone THEN 1 ELSE 0)
    /\ pc = "reeval" =>
          /\ cycle = 1
          /\ phase = "idle"
          /\ \A p \in CyclePages : tasks[p].st = "done"
    /\ (pc = "loop_test" /\ cycle = 1) =>
          /\ reevaluated = StoredUuids(auctions)
          /\ \A u \in StoredUuids(auctions) :
                ( /\ decode_data_optimized(Entry(u).item_bytes) # <<>>
                  /\ JsonSerializable(ItemData(u))
                  /\ ServiceResult(ItemData(u)).isProfitable )
                    => \E f \in BagToSet(flips) : f.itemstats.uuid = u

\* The initial pass stored a1 without a flip, its evaluation having failed; the
\* re-evaluation found the flip, and a monitoring cycle has run since.
C22_Witness ==
    /\ cycles_completed >= 1
    /\ reevaluations = 1
    /\ reevaluated = {"a1"}
    /\ <<0, "eval">> \in prev_faults \cup faults \/ fault_count = 1
    /\ \E f \in BagToSet(flips) : f.itemstats.uuid = "a1"
    /\ BagCardinality(flips) = 1

\* C23: once the signal has set self.running to False no monitoring cycle is
\* begun; the page tasks that were in flight when it came run to their end, and
\* return their statistics unless a call of theirs failed; and the sessions are
\* closed only when the pass is over with every page task finished, the
\* reconciler of the cycle has run and the cycle is counted.
C23_GracefulShutdown ==
    /\ ~running => MonitoringCyclesBegun = signal_seen[1].begun
    /\ (~running /\ pc \in {"reconcile", "loop_test", "cleanup", "stopped"}) =>
          \A p \in signal_seen[1].in_flight :
              /\ tasks[p].st = "done"
              /\ tasks[p].result.kind = "dict" \/ \E k \in FaultKinds : <<p, k>> \in faults
    /\ (sessions_closed \/ pc = "cleanup") =>
          /\ ~running
          /\ phase = "idle"
          /\ \A p \in CyclePages : tasks[p].st = "done"
          /\ cycles_completed = cycle - 1
          /\ cycle >= 2 => reconciled

\* The signal came in the second monitoring cycle with both page tasks in
\* flight; both have returned their statistics, the reconciler has run, no third
\* cycle was begun and the sessions are closed.
C23_Witness ==
    /\ sessions_closed
    /\ signal_seen[1].begun = 2
    /\ signal_seen[1].at = "pass"
    /\ signal_seen[1].in_flight = Pages
    /\ cycles_completed = 2
    /\ reconciled
    /\ total_stats.total_pages_processed = NumPages

\* C24: once the signal has come the scheduler ends in the end, the cycle in
\* progress counted, cleanup run and the sessions closed; and the loop is never
\* left while self.running is True.
C24_TerminatesAfterSignal ==
    /\ (~running) ~> (pc = "stopped" /\ sessions_closed
                      /\ cycles_completed = signal_seen[1].begun)
    /\ [](pc \in {"cleanup", "stopped"} => ~running)

\* The signal came during a monitoring cycle and the scheduler has stopped with
\* that cycle completed.
C24_Witness ==
    /\ pc = "stopped"
    /\ sessions_closed
    /\ signal_seen[1].at = "pass"
    /\ signal_seen[1].begun >= 1
    /\ cycles_completed = signal_seen[1].begun

\* C25: the remote price feeds are fetched by initial_launch and then exactly in
\* the monitoring cycles whose number of completed cycles is a multiple of
\* PriceRefreshInterval; in every other cycle no request is sent and the tables
\* in memory are those of the last refresh.
C25_RefreshEveryKthCycle ==
    /\ refresh_log = { c \in 0..(MonitoringCyclesBegun - 1) : c % PriceRefreshInterval = 0 }
    /\ cycle >= 1 => price_fetches = 1 + Cardinality(refresh_log)
    /\ price_tables = tables_refreshed

\* Six monitoring cycles have begun: the first and the sixth fetched the feeds,
\* the four in between did not.
C25_Witness ==
    /\ refresh_log = {0, PriceRefreshInterval}
    /\ price_fetches = 3
    /\ MonitoringCyclesBegun = PriceRefreshInterval + 1
    /\ pc = "pass"

\* C26: after a refresh, each table whose request succeeded holds the data just
\* fetched, and each table whose request failed holds what it held before (in
\* memory, or in its cached file), whatever happened to the other tables.
C26_PartialRefreshPerTable ==
    price_update.kind = "dict" =>
        \A t \in TableNames :
            IF price_update.results[t].success
            THEN price_tables[t] = price_fetches
            ELSE price_tables[t] \in {tables_before[t], cached_files[t]}

\* C27: a refresh whose three requests all failed does not end with a normal
\* result: the result update_cached_prices_async returns reports at least one
\* table fetched.
C27_AllFailedIsSourceUnavailable ==
    price_update.kind = "dict" => \E t \in TableNames : price_update.results[t].success

\* C28: whatever call fails (a page request, the page count request, a price
\* request, the ended feed, the existence query, the insert, the valuation
\* request, the insert of the flips), run leaves its loop only with self.running
\* cleared by a signal, and every cycle begun is completed: its pass returns,
\* its reconciler runs and the cycle is counted before the loop test.
C28_FailuresDoNotStopTheLoop ==
    /\ pc \in {"cleanup", "stopped"} => ~running
    /\ pc \in {"reconcile", "loop_test"} => phase = "idle"
    /\ pc = "loop_test" =>
          /\ cycles_completed = cycle - 1
          /\ cycle >= 2 => reconciled

\* A call of a page task failed in the first monitoring cycle; the cycle was
\* completed and the second monitoring cycle is under way.
C28_Witness ==
    /\ running
    /\ pc = "pass"
    /\ cycle = 3
    /\ cycles_completed = 1
    /\ prev_faults # {}
    /\ reconciled_between

\* C29: when check_auctions_parallel returns, the counters reported for the
\* cycle count the work of that cycle only: the totals are those of this
\* cycle's page tasks, and the evaluations reported are the items this cycle's
\* page tasks had evaluated.
C29_CountersResetEachCycle ==
    CycleEnded =>
        /\ total_stats = TotalStats(page_results(tasks))
        /\ evaluation_stats.total_evaluations =
              SumSeq([ i \in 1..NumPages |-> Len(tasks[i - 1].evaluation_results) ])

\* C30: every stored flip has a targeted price above the asking price of the
\* auction it carries.
C30_FlipAbovePrice ==
    \A f \in BagToSet(flips) : f.targeted_price > f.itemstats.starting_bid

\* C31: no step of the program (ingestion, reconciliation, price refresh,
\* re-evaluation, shutdown cleanup) removes or changes a stored flip: every flip
\* of the flips collection is still in it, as often, after the step.
C31_FlipsOnlyGrow == [][flips \sqsubseteq flips']_vars

\* A flip of a1 is still stored after the reconciler deleted the record of a1,
\* the prices were refreshed again and cleanup has run.
C31_Witness ==
    /\ pc = "stopped"
    /\ sessions_closed
    /\ price_fetches >= 2
    /\ "a1" \in deleted_ever
    /\ "a1" \notin StoredUuids(auctions)
    /\ \E f \in BagToSet(flips) : f.itemstats.uuid = "a1"

\* C32: at every point of the first cycle, under every interleaving of its page
\* tasks, each counter of evaluation_stats equals the sum of the increments the
\* tasks have made so far (the number of items evaluated, the number of
\* profitable results), and the evaluation cache holds exactly what the tasks
\* wrote to it: the batch path of the page tasks writes nothing to it.
C32_NoLostUpdate ==
    cycle = 1 =>
        LET evaluated(results)  == Len(results)
            profitable(results) == Len(SelectSeq(results, LAMBDA r : r.isProfitable))
            TaskIncrements(per(_)) ==
                SumSeq([ i \in 1..NumPages |-> per(tasks[i - 1].evaluation_results) ])
        IN  /\ evaluation_stats.total_evaluations = TaskIncrements(evaluated)
            /\ evaluation_stats.profitable_found = TaskIncrements(profitable)
            /\ evaluation_stats.cache_hits = 0
            /\ \A k \in CacheKeys : evaluation_cache[k] = <<>>

\* Two page tasks of a cycle that lets two or more tasks run at a time have both
\* had their batch evaluated and have both added to the counters.
C32_Witness ==
    /\ cycle = 1
    /\ max_concurrent >= 2
    /\ \E p, q \in Pages :
          /\ p # q
          /\ tasks[p].st = "done" /\ tasks[p].evaluation_results # <<>>
          /\ tasks[q].st = "done" /\ tasks[q].evaluation_results # <<>>
          /\ tasks[p].result.profitable_flips >= 1
    /\ evaluation_stats.total_evaluations >= 2

\* C33: only records that were not in the store are submitted for evaluation: no
\* page task of a cycle passes to process_auctions_batch an auction whose record
\* was stored when the cycle began. In particular a record stored in an earlier
\* cycle, whose evaluation failed then, is not submitted again while it is stored
\* (the reconciler, the only step that deletes, runs between the cycles).
C33_StoredNotReevaluated ==
    \A p \in Pages :
        \A u \in Range(tasks[p].bin_auctions) : u \notin StoredUuids(store_at_start)

\* In the second cycle the page of a1 has been processed again; the batch request
\* of that page failed in the first cycle, a1 has stayed in the store, and it
\* has no flip.
C33_Witness ==
    /\ cycle = 2
    /\ \E p \in Pages :
          /\ <<p, "eval">> \in prev_faults
          /\ "a1" \in Range(catalog[p])
          /\ tasks[p].st = "done"
          /\ tasks[p].result.kind = "dict"
          /\ tasks[p].result.existing_auctions >= 1
    /\ "a1" \in StoredUuids(store_at_start)
    /\ flips = EmptyBag

\* C34: in the first cycle, an auction listed as a fixed-price offer on two
\* pages whose tasks both got their page and their existence query answered is
\* stored once and is submitted for evaluation by exactly one of the two tasks.
C34_OneTaskInsertsAndEvaluates ==
    (cycle = 1 /\ ~reconciled) =>
        \A p, q \in Pages :
            \A u \in OpenBinOn(p) \cap OpenBinOn(q) :
                (/\ p # q
                 /\ tasks[p].st = "done" /\ tasks[p].result.kind = "dict"
                 /\ tasks[q].st = "done" /\ tasks[q].result.kind = "dict"
                 /\ faults \cap {<<p, "fetch">>, <<q, "fetch">>} = {})
                => /\ StoredCount(auctions, u) = 1
                   /\ Cardinality({ r \in {p, q} : u \in Range(tasks[r].bin_auctions) }) = 1

\* C35: a successful result that evaluate_item_async serves from the cache for an
\* auction carries the profit and the verdict the service computes for that
\* auction's own item and asking price.
C35_CachedResultForOwnPrice ==
    (lookup.made /\ lookup.answered # <<>> /\ lookup.answered[1].success) =>
        LET own == ServiceResult(ItemData(lookup.uuid))
        IN  /\ lookup.answered[1].profit = own.profit
            /\ lookup.answered[1].isProfitable = own.isProfitable

\* C36: the evaluation cache holds results of successful evaluations only, and a
\* lookup is never answered from the cache with a failure.
C36_OnlySuccessCached ==
    /\ \A k \in CacheKeys :
          evaluation_cache[k] # <<>> => evaluation_cache[k][1].result.success
    /\ (lookup.made /\ lookup.answered # <<>>) => lookup.answered[1].success

\* The requests to the service in flight for key k that were sent at a time
\* less than ttl away from time t.
InFlightFor(k, t) ==
    LET reqs == { r \in BagToSet(pending) :
                    /\ r.cache_key = k
                    /\ r.current_time - t < cache_ttl
                    /\ t - r.current_time < cache_ttl }
        n(r) == CopiesIn(r, pending)
        seq  == SetToSeq(reqs)
    IN  SumSeq([ i \in 1..Len(seq) |-> n(seq[i]) ])

\* C37: for one cache key, at most one request of evaluate_item_async is on its
\* way to the service within one ttl window.
C37_OneRequestPerKey ==
    \A r \in BagToSet(pending) : InFlightFor(r.cache_key, r.current_time) <= 1

\* C38: a flip is only ever inserted for an auction whose record is stored: as
\* long as the reconciler has deleted nothing, every flip of the flips collection
\* carries the uuid of a stored record.
C38_FlipOnlyForStoredRecord ==
    deleted_ever = {} =>
        \A f \in BagToSet(flips) : f.itemstats.uuid \in StoredUuids(auctions)

\* C39: when the first cycle has ended, the flips-found count it reports is the
\* number of flips the cycle added to the flips collection, which was empty.
C39_ReportedFlipsWereAdded ==
    (CycleEnded /\ cycle = 1) => total_stats.profitable_flips = BagCardinality(flips)

\* C40: a cycle whose metadata request failed runs over the fallback page count
\* (50 pages in the initial launch, 2 in a monitoring cycle), with a task for
\* each page of the catalog below that count; a cycle whose metadata request
\* succeeded has one task for each page of the catalog, and all of them have
\* finished when the pass ends.
C40_FallbackPageCount ==
    cycle >= 1 =>
        /\ "meta" \in sched_faults =>
              /\ total_pages = (IF cycle = 1 THEN LaunchFallbackPages
                                             ELSE MonitoringFallbackPages)
              /\ CyclePages = { p \in Pages : p < total_pages }
        /\ "meta" \notin sched_faults =>
              /\ total_pages = NumPages
              /\ CyclePages = Pages
              /\ phase = "idle" => \A p \in Pages : tasks[p].st = "done"
====
